---- MODULE Spec2Model ----
(***************************************************************************)
(* Key and payment-address derivation of privacy/server/Address.cpp.       *)
(*                                                                         *)
(* Address.cpp composes collaborators (PRFs, note-encryption key            *)
(* generation, librustzcash curve operations, hashing, the RNG).  Only two *)
(* bodies are compiled: SproutPaymentAddress::GetHash (whose statements are *)
(* commented out, so the function ends without a return) and               *)
(* ReceivingKey::pk_enc (which returns a default-constructed uint256).  The *)
(* other bodies are present in the file as commented-out text; they are     *)
(* modelled as that text reads.                                             *)
(*                                                                         *)
(* Every value is a natural number or a tuple of natural numbers.  A call   *)
(* of the library is an action; it appends a record (op, arg, ret) to the   *)
(* history variable calls.  The only state an operation reads or writes is  *)
(* the RNG consulted by the two random() constructors.                      *)
(***************************************************************************)
EXTENDS Naturals, Sequences, FiniteSets

VARIABLES rng, calls

vars == <<rng, calls>>

(***************************************************************************)
(* Bounds of the model.                                                    *)
(***************************************************************************)
\* spending-key seeds are 0..MaxSeed
MaxSeed == 2
\* diversifiers are 0..MaxDiv
MaxDiv == 3
\* number of calls kept in the history
MaxCalls == 2
\* number of candidates default_diversifier tries
SearchBound == 2
\* values an indeterminate uint256 may take are 0..MaxGarbage
MaxGarbage == 1

Seeds == 0 .. MaxSeed

Diversifiers == 0 .. MaxDiv

(***************************************************************************)
(* uint256 and the collaborators.                                          *)
(***************************************************************************)
\* uint256(): the default constructor yields the all-zero blob
uint256_default == 0

\* number of domain-separation tags used by the one-way functions below
NTags == 8

\* a one-way function with domain-separation tag t applied to x:
\* injective in (t, x), never the zero blob
Tagged(t, x) == 1 + t + NTags * x

PRF_addr_a_pk(sk) == Tagged(0, sk)

PRF_addr_sk_enc(sk) == Tagged(1, sk)

PRF_ask(sk) == Tagged(2, sk)

PRF_nsk(sk) == Tagged(3, sk)

PRF_ovk(sk) == Tagged(4, sk)

\* ZCNoteEncryption::generate_privkey(a_sk)
generate_privkey(sk) == PRF_addr_sk_enc(sk)

\* ZCNoteEncryption::generate_pubkey(sk_enc)
generate_pubkey(sk_enc) == Tagged(5, sk_enc)

\* Cantor pairing, the canonical serialization of two fields
Pair(a, b) == ((a + b) * (a + b + 1)) \div 2 + b

\* ss << addr
Serialize(addr) == Pair(addr[1], addr[2])

\* Hash(ss.begin(), ss.end())
Hash(bytes) == Tagged(7, bytes)

\* order r of the prime-order subgroup; points and scalars are 0..r-1,
\* the point 0 is the identity
GroupOrder == 7

\* the two fixed generator points
SpendAuthGen == 2

ProofGenKey == 3

Scalars == 0 .. (GroupOrder - 1)

\* librustzcash_ask_to_ak: ak = ask * SpendAuthGen
ask_to_ak(ask) == ((ask % GroupOrder) * SpendAuthGen) % GroupOrder

\* librustzcash_nsk_to_nk: nk = nsk * ProofGenKey
nsk_to_nk(nsk) == ((nsk % GroupOrder) * ProofGenKey) % GroupOrder

\* librustzcash_crh_ivk: hash of (ak, nk) to a scalar
crh_ivk(ak, nk) == Tagged(6, Pair(ak, nk)) % GroupOrder

\* the base point of a diversifier, 0 when d does not map to one
DiversifyHash(d) == IF d % 2 = 0 THEN 0 ELSE ((d + 1) \div 2) % GroupOrder

\* librustzcash_check_diversifier
check_diversifier(d) == DiversifyHash(d) # 0

\* librustzcash_ivk_to_pkd: pk_d = ivk * g_d
ivk_to_pkd(ivk, d) == ((ivk % GroupOrder) * DiversifyHash(d)) % GroupOrder

\* the i-th candidate diversifier of a spending key
Candidate(sk, i) == (sk * sk + i * ((sk * (sk + 1)) \div 2)) % (MaxDiv + 1)

RECURSIVE SearchFrom(_, _)
SearchFrom(sk, i) ==
    IF check_diversifier(Candidate(sk, i)) \/ i + 1 >= SearchBound
    THEN Candidate(sk, i)
    ELSE SearchFrom(sk, i + 1)

\* default_diversifier(sk): the first valid candidate, the last one tried
\* when none is valid
default_diversifier(sk) == SearchFrom(sk, 0)

\* the secure RNG: the value drawn and the state after the draw
rng_draw(state) == state

rng_next(state) == (state + 1) % (MaxSeed + 1)

\* boost::optional: none is the empty tuple
none == <<>>

(***************************************************************************)
(* Scheme A (Sprout).                                                      *)
(***************************************************************************)
\* the values a function that ends without a return may hand back
Indeterminate(intended) == (0 .. MaxGarbage) \cup {intended}

\* SproutPaymentAddress::GetHash: the set of values the call may return
SproutPaymentAddress_GetHash(addr) == Indeterminate(Hash(Serialize(addr)))

ReceivingKey_pk_enc(sk_enc) == uint256_default

SproutViewingKey_address(vk) == <<vk[1], ReceivingKey_pk_enc(vk[2])>>

SproutSpendingKey_receiving_key(sk) == generate_privkey(sk)

SproutSpendingKey_viewing_key(sk) ==
    <<PRF_addr_a_pk(sk), SproutSpendingKey_receiving_key(sk)>>

\* variant: the address is assembled from the key generator directly
SproutSpendingKey_address_direct(sk) ==
    <<PRF_addr_a_pk(sk), generate_pubkey(SproutSpendingKey_receiving_key(sk))>>

SproutSpendingKey_address(sk) ==
    SproutViewingKey_address(SproutSpendingKey_viewing_key(sk))

(***************************************************************************)
(* Scheme B (Sapling).                                                     *)
(***************************************************************************)
SaplingExpandedSpendingKey_full_viewing_key(expsk) ==
    <<ask_to_ak(expsk[1]), nsk_to_nk(expsk[2]), expsk[3]>>

\* variant: the output of PRF_ask is used for nsk as well
SaplingSpendingKey_expanded_spending_key_reuse(sk) ==
    <<PRF_ask(sk), PRF_ask(sk), PRF_ovk(sk)>>

SaplingSpendingKey_expanded_spending_key(sk) ==
    <<PRF_ask(sk), PRF_nsk(sk), PRF_ovk(sk)>>

\* variant: the sub-secrets are handed over in the wrong order
SaplingSpendingKey_full_viewing_key_swapped(sk) ==
    SaplingExpandedSpendingKey_full_viewing_key(
        <<PRF_nsk(sk), PRF_ask(sk), PRF_ovk(sk)>>)

SaplingSpendingKey_full_viewing_key(sk) ==
    SaplingExpandedSpendingKey_full_viewing_key(
        SaplingSpendingKey_expanded_spending_key(sk))

SaplingFullViewingKey_in_viewing_key(fvk) == crh_ivk(fvk[1], fvk[2])

\* variant: the diversifier is not checked
SaplingIncomingViewingKey_address_unchecked(ivk, d) == <<d, ivk_to_pkd(ivk, d)>>

\* variant: pk_d is computed from a fixed diversifier
SaplingIncomingViewingKey_address_fixed(ivk, d) ==
    IF check_diversifier(d) THEN <<d, ivk_to_pkd(ivk, 1)>> ELSE none

SaplingIncomingViewingKey_address(ivk, d) ==
    IF check_diversifier(d) THEN <<d, ivk_to_pkd(ivk, d)>> ELSE none

\* variant: only the first candidate diversifier is tried
SaplingSpendingKey_default_address_first(sk) ==
    SaplingIncomingViewingKey_address(
        SaplingFullViewingKey_in_viewing_key(
            SaplingSpendingKey_full_viewing_key(sk)),
        Candidate(sk, 0))

SaplingSpendingKey_default_address(sk) ==
    SaplingIncomingViewingKey_address(
        SaplingFullViewingKey_in_viewing_key(
            SaplingSpendingKey_full_viewing_key(sk)),
        default_diversifier(sk))

(***************************************************************************)
(* Variant layer.  A variant is <<which, content>>.                        *)
(***************************************************************************)
\* positions of the bounded types in the boost::variant typedefs
InvalidEncoding == 0

SchemeA == 1

SchemeB == 2

Tags == {InvalidEncoding, SchemeA, SchemeB}

\* boost::variant::which()
which(v) == v[1]

IsValidPaymentAddress(zaddr) == which(zaddr) # 0

\* variant: only the first populated alternative counts as valid
IsValidViewingKey_first(vk) == which(vk) = 1

IsValidViewingKey(vk) == which(vk) # 0

IsValidSpendingKey(zkey) == which(zkey) # 0

(***************************************************************************)
(* Values callers can construct: derived from a seed, or default           *)
(* constructed.                                                            *)
(***************************************************************************)
ReceivingKeys ==
    {SproutSpendingKey_receiving_key(s) : s \in Seeds} \cup {uint256_default}

ViewingKeys ==
    {SproutSpendingKey_viewing_key(s) : s \in Seeds}
        \cup {<<uint256_default, uint256_default>>}

SproutAddresses ==
    UNION {{<<vk[1], uint256_default>>, <<vk[1], generate_pubkey(vk[2])>>} :
               vk \in ViewingKeys}

ExpandedKeys ==
    {SaplingSpendingKey_expanded_spending_key(s) : s \in Seeds}
        \cup {<<uint256_default, uint256_default, uint256_default>>}

FullViewingKeys ==
    {SaplingExpandedSpendingKey_full_viewing_key(e) : e \in ExpandedKeys}

Variants ==
    {<<InvalidEncoding, 0>>} \cup {<<t, c>> : t \in {SchemeA, SchemeB}, c \in Seeds}

BoolVal(b) == IF b THEN 1 ELSE 0

(***************************************************************************)
(* The state machine.                                                      *)
(***************************************************************************)
Call(op, arg, ret) == [op |-> op, arg |-> arg, ret |-> ret]

\* a call that returns ret and touches no state of the library
Returns(op, arg, ret) ==
    /\ calls' = calls \cup {Call(op, arg, ret)}
    /\ Cardinality(calls') <= MaxCalls
    /\ UNCHANGED rng

\* a random() constructor: draws from the RNG, which advances
Draws(op) ==
    /\ calls' = calls \cup {Call(op, <<>>, <<rng_draw(rng)>>)}
    /\ Cardinality(calls') <= MaxCalls
    /\ rng' = rng_next(rng)

Init ==
    /\ rng \in Seeds
    /\ calls = {}

GetHash ==
    \E addr \in SproutAddresses :
        \E h \in SproutPaymentAddress_GetHash(addr) :
            Returns("SproutPaymentAddress::GetHash", addr, <<h>>)

PkEnc ==
    \E rk \in ReceivingKeys :
        Returns("ReceivingKey::pk_enc", <<rk>>, <<ReceivingKey_pk_enc(rk)>>)

ViewingKeyAddress ==
    \E vk \in ViewingKeys :
        Returns("SproutViewingKey::address", vk, SproutViewingKey_address(vk))

ReceivingKeyOf ==
    \E sk \in Seeds :
        Returns("SproutSpendingKey::receiving_key", <<sk>>,
                <<SproutSpendingKey_receiving_key(sk)>>)

ViewingKeyOf ==
    \E sk \in Seeds :
        Returns("SproutSpendingKey::viewing_key", <<sk>>,
                SproutSpendingKey_viewing_key(sk))

SproutRandom == Draws("SproutSpendingKey::random")

SproutAddressOf ==
    \E sk \in Seeds :
        Returns("SproutSpendingKey::address", <<sk>>, SproutSpendingKey_address(sk))

ExpandedFullViewingKey ==
    \E expsk \in ExpandedKeys :
        Returns("SaplingExpandedSpendingKey::full_viewing_key", expsk,
                SaplingExpandedSpendingKey_full_viewing_key(expsk))

Expand ==
    \E sk \in Seeds :
        Returns("SaplingSpendingKey::expanded_spending_key", <<sk>>,
                SaplingSpendingKey_expanded_spending_key(sk))

FullViewingKeyOf ==
    \E sk \in Seeds :
        Returns("SaplingSpendingKey::full_viewing_key", <<sk>>,
                SaplingSpendingKey_full_viewing_key(sk))

InViewingKey ==
    \E fvk \in FullViewingKeys :
        Returns("SaplingFullViewingKey::in_viewing_key", fvk,
                <<SaplingFullViewingKey_in_viewing_key(fvk)>>)

SaplingRandom == Draws("SaplingSpendingKey::random")

IvkAddress ==
    \E ivk \in Scalars, d \in Diversifiers :
        Returns("SaplingIncomingViewingKey::address", <<ivk, d>>,
                SaplingIncomingViewingKey_address(ivk, d))

DefaultAddress ==
    \E sk \in Seeds :
        Returns("SaplingSpendingKey::default_address", <<sk>>,
                SaplingSpendingKey_default_address(sk))

ValidPaymentAddress ==
    \E v \in Variants :
        Returns("IsValidPaymentAddress", v, <<BoolVal(IsValidPaymentAddress(v))>>)

ValidViewingKey ==
    \E v \in Variants :
        Returns("IsValidViewingKey", v, <<BoolVal(IsValidViewingKey(v))>>)

ValidSpendingKey ==
    \E v \in Variants :
        Returns("IsValidSpendingKey", v, <<BoolVal(IsValidSpendingKey(v))>>)

Next ==
    \/ GetHash
    \/ PkEnc
    \/ ViewingKeyAddress
    \/ ReceivingKeyOf
    \/ ViewingKeyOf
    \/ SproutRandom
    \/ SproutAddressOf
    \/ ExpandedFullViewingKey
    \/ Expand
    \/ FullViewingKeyOf
    \/ InViewingKey
    \/ SaplingRandom
    \/ IvkAddress
    \/ DefaultAddress
    \/ ValidPaymentAddress
    \/ ValidViewingKey
    \/ ValidSpendingKey

Spec == Init /\ [][Next]_vars

TypeOK ==
    /\ rng \in Seeds
    /\ Cardinality(calls) <= MaxCalls

(***************************************************************************)
(* Properties.                                                             *)
(***************************************************************************)
CallsOf(op) == {c \in calls : c.op = op}

IvkAddressCalls == CallsOf("SaplingIncomingViewingKey::address")

\* C1: address(ivk, d) returns a payment address (d, pk_d) exactly when
\* checkDiversifier(d) holds, and returns absent otherwise, whatever ivk is.
DiversifierGating ==
    \A c \in IvkAddressCalls :
        /\ c.ret # none <=> check_diversifier(c.arg[2])
        /\ c.ret # none => Len(c.ret) = 2 /\ c.ret[1] = c.arg[2]

DiversifierGatingWitness ==
    /\ \E c \in IvkAddressCalls : ~check_diversifier(c.arg[2]) /\ c.ret = none
    /\ \E c \in IvkAddressCalls : check_diversifier(c.arg[2]) /\ c.ret # none

\* the positions in the candidate sequence of sk that are valid diversifiers
ValidCandidates(sk) ==
    {i \in 0 .. (SearchBound - 1) : check_diversifier(Candidate(sk, i))}

FirstValid(sk) ==
    CHOOSE i \in ValidCandidates(sk) : \A j \in ValidCandidates(sk) : i <= j

\* the incoming viewing key of a Scheme B spending key
IvkOf(sk) ==
    SaplingFullViewingKey_in_viewing_key(SaplingSpendingKey_full_viewing_key(sk))

DefaultAddressAbsentWitness ==
    \E c \in CallsOf("SaplingSpendingKey::default_address") :
        ValidCandidates(c.arg[1]) = {} /\ c.ret = none

\* C3 (as claimed): address(ViewingKey) returns (a_pk, pk_enc) with
\* pk_enc = generatePublicKey(sk_enc) of the viewing key's receiving key.
PkEncFromReceivingKey ==
    \A c \in CallsOf("SproutViewingKey::address") :
        c.ret = <<c.arg[1], generate_pubkey(c.arg[2])>>

\* C4 (as claimed): hash(addr) is the digest of the canonical serialization
\* of addr, and two calls on the same address return the same digest.
HashOfSerialization ==
    /\ \A c \in CallsOf("SproutPaymentAddress::GetHash") :
           c.ret = <<Hash(Serialize(c.arg))>>
    /\ \A c1, c2 \in CallsOf("SproutPaymentAddress::GetHash") :
           c1.arg = c2.arg => c1.ret = c2.ret

IsValidOps == {"IsValidPaymentAddress", "IsValidViewingKey", "IsValidSpendingKey"}

IsValidCalls == {c \in calls : c.op \in IsValidOps}

SproutPathEquivalence ==
    \A c1 \in CallsOf("SproutSpendingKey::address") :
        \A c2 \in CallsOf("SproutViewingKey::address") :
            c2.arg = SproutSpendingKey_viewing_key(c1.arg[1])
                => c1.ret[1] = c2.ret[1] /\ c1.ret[2] = c2.ret[2]

SproutPathEquivalenceWitness ==
    \E c1 \in CallsOf("SproutSpendingKey::address") :
        \E c2 \in CallsOf("SproutViewingKey::address") :
            c2.arg = SproutSpendingKey_viewing_key(c1.arg[1]) /\ c1.ret = c2.ret

\* C7: fullViewingKey(s) of a Scheme B spending key equals
\* fullViewingKey(expand(s)) in ak, nk and ovk.
SaplingPathEquivalence ==
    \A c1 \in CallsOf("SaplingSpendingKey::full_viewing_key") :
        \A c2 \in CallsOf("SaplingExpandedSpendingKey::full_viewing_key") :
            c2.arg = SaplingSpendingKey_expanded_spending_key(c1.arg[1])
                => /\ c1.ret[1] = c2.ret[1]
                   /\ c1.ret[2] = c2.ret[2]
                   /\ c1.ret[3] = c2.ret[3]

SaplingPathEquivalenceWitness ==
    \E c1 \in CallsOf("SaplingSpendingKey::full_viewing_key") :
        \E c2 \in CallsOf("SaplingExpandedSpendingKey::full_viewing_key") :
            /\ c2.arg = SaplingSpendingKey_expanded_spending_key(c1.arg[1])
            /\ c1.ret = c2.ret

RandomOps == {"SproutSpendingKey::random", "SaplingSpendingKey::random"}

\* C8 (as claimed): every operation other than the two random()
\* constructors returns the same output for the same input as any other
\* call of it did.
Determinism ==
    \A c1, c2 \in calls :
        c1.op = c2.op /\ c1.op \notin RandomOps /\ c1.arg = c2.arg
            => c1.ret = c2.ret

\* C9 (as claimed): two present addresses of one ivk for different
\* diversifiers differ in pk_d.
Unlinkability ==
    \A c1, c2 \in IvkAddressCalls :
        /\ c1.arg[1] = c2.arg[1]
        /\ c1.arg[2] # c2.arg[2]
        /\ c1.ret # none
        /\ c2.ret # none
        => c1.ret[2] # c2.ret[2]

\* C9 (amended): two present addresses of one nonzero ivk for different
\* diversifiers differ in pk_d.
UnlinkabilityNonzeroIvk ==
    \A c1, c2 \in IvkAddressCalls :
        /\ c1.arg[1] = c2.arg[1]
        /\ c1.arg[1] % GroupOrder # 0
        /\ c1.arg[2] # c2.arg[2]
        /\ c1.ret # none
        /\ c2.ret # none
        => c1.ret[2] # c2.ret[2]

UnlinkabilityNonzeroIvkWitness ==
    \E c1, c2 \in IvkAddressCalls :
        /\ c1.arg[1] = c2.arg[1]
        /\ c1.arg[1] % GroupOrder # 0
        /\ c1.arg[2] # c2.arg[2]
        /\ c1.ret # none
        /\ c2.ret # none
        /\ c1.ret[2] # c2.ret[2]

\* C10: expand(s) is (PRF_ask(s), PRF_nsk(s), PRF_ovk(s)), and its three
\* fields are pairwise distinct.
DomainSeparatedExpansion ==
    \A c \in CallsOf("SaplingSpendingKey::expanded_spending_key") :
        /\ c.ret[1] = PRF_ask(c.arg[1])
        /\ c.ret[2] = PRF_nsk(c.arg[1])
        /\ c.ret[3] = PRF_ovk(c.arg[1])
        /\ c.ret[1] # c.ret[2]
        /\ c.ret[1] # c.ret[3]
        /\ c.ret[2] # c.ret[3]

DomainSeparatedExpansionWitness ==
    \E c1, c2 \in CallsOf("SaplingSpendingKey::expanded_spending_key") :
        /\ c1.arg # c2.arg
        /\ c1.ret[1] # c1.ret[2]
        /\ c1.ret[1] # c2.ret[1]

====
